---- MODULE Spec2Model ----
(***************************************************************************)
(* FileConverter: MS Office -> PDF conversion through COM automation.      *)
(*   converter.py  convert_to_pdf(input_path, output_path)                 *)
(*   main.py       FastAPI endpoint POST /convert/                         *)
(*   gui.py        Tkinter front end with one worker thread                *)
(*                                                                         *)
(* Strings are sequences of one-character strings.  The program imports    *)
(* comtypes.client and drives MS Office, so it runs on Windows only: the   *)
(* os.path functions are those of ntpath (both "/" and "\" separate path   *)
(* components, a second character ":" makes a drive prefix).               *)
(***************************************************************************)
EXTENDS Integers, Sequences, FiniteSets, TLC

VARIABLES prog, fs, cv, ncalls, reqs, uuids, gui

vars == <<prog, fs, cv, ncalls, reqs, uuids, gui>>

---------------------------------------------------------------------------
(* Characters and str.lower()                                              *)

UpperChars == <<"D", "O", "C", "X", "L", "S", "P", "T">>
LowerChars == <<"d", "o", "c", "x", "l", "s", "p", "t">>

LowerChar(c) ==
  IF \E i \in 1..Len(UpperChars) : UpperChars[i] = c
  THEN LowerChars[CHOOSE i \in 1..Len(UpperChars) : UpperChars[i] = c]
  ELSE c

Lower(s) == [i \in 1..Len(s) |-> LowerChar(s[i])]

Last(s) == s[Len(s)]

\* str.rfind for a set of characters: the last index holding one, 0 if none
RFind(s, cs) ==
  IF \E i \in 1..Len(s) : s[i] \in cs
  THEN CHOOSE i \in 1..Len(s) : s[i] \in cs /\ \A j \in (i+1)..Len(s) : s[j] \notin cs
  ELSE 0

---------------------------------------------------------------------------
(* os.path on Windows (ntpath)                                             *)

Seps == {"/", "\\"}

\* ntpath.splitdrive (drive letters; UNC paths are not modelled)
SplitDrive(p) ==
  IF Len(p) >= 2 /\ p[2] = ":"
  THEN <<SubSeq(p, 1, 2), SubSeq(p, 3, Len(p))>>
  ELSE <<<<>>, p>>

\* ntpath.join(a, b)
Join(a, b) ==
  LET rd == SplitDrive(a)[1]
      rp == SplitDrive(a)[2]
      pd == SplitDrive(b)[1]
      pp == SplitDrive(b)[2]
      rel(drive) ==
        drive \o (IF rp # <<>> /\ Last(rp) \notin Seps THEN rp \o <<"\\">> ELSE rp) \o pp
  IN  IF pp # <<>> /\ pp[1] \in Seps
      THEN (IF pd # <<>> \/ rd = <<>> THEN pd ELSE rd) \o pp   \* b is absolute
      ELSE IF pd # <<>> /\ pd # rd
      THEN IF Lower(pd) # Lower(rd)
           THEN pd \o pp                 \* another drive: a is ignored entirely
           ELSE rel(pd)
      ELSE rel(rd)

\* ntpath.split(p)[1]
Basename(p) ==
  LET r == SplitDrive(p)[2]
  IN  SubSeq(r, RFind(r, Seps) + 1, Len(r))

RECURSIVE RStripSeps(_)
RStripSeps(s) ==
  IF s # <<>> /\ Last(s) \in Seps THEN RStripSeps(SubSeq(s, 1, Len(s) - 1)) ELSE s

\* ntpath.split(p)[0]
Dirname(p) ==
  LET d == SplitDrive(p)[1]
      r == SplitDrive(p)[2]
      head == SubSeq(r, 1, RFind(r, Seps))
  IN  d \o (IF RStripSeps(head) # <<>> THEN RStripSeps(head) ELSE head)

\* genericpath._splitext(p, "\\", "/", "."): <<root, ext>>
Splitext(p) ==
  LET sepIndex == RFind(p, Seps)
      dotIndex == RFind(p, {"."})
  IN  IF dotIndex > sepIndex
         /\ \E k \in (sepIndex + 1)..(dotIndex - 1) : p[k] # "."
      THEN <<SubSeq(p, 1, dotIndex - 1), SubSeq(p, dotIndex, Len(p))>>
      ELSE <<p, <<>>>>

---------------------------------------------------------------------------
(* The file system.  A path names the entry Key(path): its drive, whether  *)
(* it is rooted, and its components after "." and ".." are resolved.       *)
(* fs maps the existing entries to [kind, by]: "dir" or "file", and for a  *)
(* file the caller that wrote it last ("": it was there before).            *)

RECURSIVE SplitFrom(_, _, _)
SplitFrom(s, i, cur) ==
  IF i > Len(s) THEN <<cur>>
  ELSE IF s[i] \in Seps THEN <<cur>> \o SplitFrom(s, i + 1, <<>>)
  ELSE SplitFrom(s, i + 1, Append(cur, s[i]))

RECURSIVE Normal(_, _, _)
Normal(comps, i, acc) ==
  IF i > Len(comps) THEN acc
  ELSE IF comps[i] = <<>> \/ comps[i] = <<".">> THEN Normal(comps, i + 1, acc)
  ELSE IF comps[i] = <<".", ".">> /\ acc # <<>> /\ Last(acc) # <<".", ".">>
       THEN Normal(comps, i + 1, SubSeq(acc, 1, Len(acc) - 1))
  ELSE Normal(comps, i + 1, Append(acc, comps[i]))

Key(p) ==
  LET d == SplitDrive(p)[1]
      r == SplitDrive(p)[2]
  IN  [drive  |-> Lower(d),
       rooted |-> (r # <<>> /\ r[1] \in Seps),
       comps  |-> Normal(SplitFrom(r, 1, <<>>), 1, <<>>)]

ParentKey(k) == [k EXCEPT !.comps = SubSeq(k.comps, 1, Len(k.comps) - 1)]

\* the directory a relative path starts from always exists
IsDirKey(f, k) == k.comps = <<>> \/ (k \in DOMAIN f /\ f[k].kind = "dir")

\* os.path.exists: any kind of entry counts, "" names nothing
Exists(f, p) == p # <<>> /\ (Key(p).comps = <<>> \/ Key(p) \in DOMAIN f)

IsDir(f, p) == p # <<>> /\ IsDirKey(f, Key(p))

Ancestors(k) == {[k EXCEPT !.comps = SubSeq(k.comps, 1, n)] : n \in 1..Len(k.comps)}

\* characters Windows refuses in a file or directory name
IllegalChars == {"*", "?", "<", ">", "|", ":"}

LegalName(n) == \A i \in 1..Len(n) : n[i] \notin IllegalChars

\* os.makedirs can succeed only where no regular file is in the way and every
\* directory to create has a name the system accepts
CanMakedirs(f, p) ==
  /\ p # <<>>
  /\ \A a \in Ancestors(Key(p)) :
       IF a \in DOMAIN f THEN f[a].kind = "dir" ELSE LegalName(Last(a.comps))

Makedirs(f, p) ==
  LET new == {a \in Ancestors(Key(p)) : a \notin DOMAIN f}
  IN  [a \in new |-> [kind |-> "dir", by |-> ""]] @@ f

\* a file can be written where the parent is a directory and the name is free
\* or names a regular file
CanWrite(f, p) ==
  LET k == Key(p)
  IN  p # <<>> /\ k.comps # <<>> /\ IsDirKey(f, ParentKey(k))
      /\ LegalName(Last(k.comps))
      /\ (k \in DOMAIN f => f[k].kind = "file")

WriteFile(f, p, who) == (Key(p) :> [kind |-> "file", by |-> who]) @@ f

IsUnder(k, top) ==
  k.drive = top.drive /\ k.rooted = top.rooted
  /\ Len(k.comps) >= Len(top.comps)
  /\ SubSeq(k.comps, 1, Len(top.comps)) = top.comps

\* shutil.rmtree
Rmtree(f, p) == [k \in {x \in DOMAIN f : ~IsUnder(x, Key(p))} |-> f[k]]

---------------------------------------------------------------------------
(* converter.py                                                            *)

SUPPORTED_EXTENSIONS ==
  (<<".", "d", "o", "c">> :> "Word.Application")
  @@ (<<".", "d", "o", "c", "x">> :> "Word.Application")
  @@ (<<".", "x", "l", "s">> :> "Excel.Application")
  @@ (<<".", "x", "l", "s", "x">> :> "Excel.Application")
  @@ (<<".", "p", "p", "t">> :> "PowerPoint.Application")
  @@ (<<".", "p", "p", "t", "x">> :> "PowerPoint.Application")

PDF_FORMAT_CODE ==
  ("Word.Application" :> 17)
  @@ ("Excel.Application" :> 0)
  @@ ("PowerPoint.Application" :> 32)

PdfSuffix == <<".", "p", "d", "f">>

\* os.path.splitext(path)[1].lower()
FileExt(path) == Lower(Splitext(path)[2])

SupportedAny(ext) == TRUE
Supported(ext) == ext \in DOMAIN SUPPORTED_EXTENSIONS

\* the frame of the one running call of convert_to_pdf; calls is the trace of
\* the calls made on the automation surface, each with its outcome
NoRet == [set |-> FALSE, success |-> FALSE, kind |-> "", text |-> <<>>]

IdleFrame ==
  [pc |-> "idle", caller |-> "", input_path |-> <<>>, output_path |-> <<>>,
   output_dir |-> <<>>, pdf_output_path |-> <<>>, app_name |-> "",
   pdf_format |-> -1, app |-> FALSE, doc |-> FALSE, calls |-> <<>>,
   ret |-> NoRet]

Enter(who, input, output) ==
  [IdleFrame EXCEPT !.pc = "check_input", !.caller = who,
                    !.input_path = input, !.output_path = output]

Ret(ok, kind, text) == [set |-> TRUE, success |-> ok, kind |-> kind, text |-> text]

\* a return before the try statement: nothing to release
ReturnNow(c, ok, kind, text) == [c EXCEPT !.pc = "returned", !.ret = Ret(ok, kind, text)]

Called(c, m, fmt, ok) == [c EXCEPT !.calls = Append(@, [m |-> m, fmt |-> fmt, ok |-> ok])]

\* lines 44-52: the input must exist and have a supported extension
ConvCheckInput ==
  /\ cv.pc = "check_input"
  /\ cv' = IF ~Exists(fs, cv.input_path)
           THEN ReturnNow(cv, FALSE, "no_input", cv.input_path)
           ELSE IF ~Supported(FileExt(cv.input_path))
           THEN ReturnNow(cv, FALSE, "unsupported", FileExt(cv.input_path))
           ELSE [cv EXCEPT !.pc = "check_outdir"]
  /\ UNCHANGED <<prog, fs, ncalls, reqs, uuids, gui>>

\* line 58: the test that decides whether os.makedirs is called
OutputDirPresent(f, d) == Exists(f, d)

\* lines 55-57
OutputDirOf(input, output) == IF output = <<>> THEN Dirname(input) ELSE output

\* line 66
PdfOutputPath(dir, input) == Join(dir, Basename(Splitext(input)[1]) \o PdfSuffix)

Prepared(c, dir) ==
  [c EXCEPT !.pc = "create", !.output_dir = dir,
            !.pdf_output_path = PdfOutputPath(dir, c.input_path),
            !.app_name = SUPPORTED_EXTENSIONS[FileExt(c.input_path)],
            !.pdf_format = PDF_FORMAT_CODE[SUPPORTED_EXTENSIONS[FileExt(c.input_path)]]]

\* a failed os.makedirs returns the failure (lines 62-63)
MkdirFailed(c, dir) == ReturnNow(c, FALSE, "mkdir_failed", dir)

\* lines 55-69: an absent output directory is created; os.makedirs may raise
\* OSError (always where it cannot succeed)
ConvEnsureOutputDir ==
  /\ cv.pc = "check_outdir"
  /\ LET dir == OutputDirOf(cv.input_path, cv.output_path)
     IN  IF OutputDirPresent(fs, dir)
         THEN /\ cv' = Prepared(cv, dir)
              /\ fs' = fs
         ELSE \E ok \in BOOLEAN :
                IF ok /\ CanMakedirs(fs, dir)
                THEN /\ fs' = Makedirs(fs, dir)
                     /\ cv' = Prepared(cv, dir)
                ELSE /\ fs' = fs
                     /\ cv' = MkdirFailed(cv, dir)
  /\ UNCHANGED <<prog, ncalls, reqs, uuids, gui>>

\* lines 78-79: CreateObject may raise; so may setting Visible on the new handle
ConvCreateObject ==
  /\ cv.pc = "create"
  /\ \E out \in {"ok", "create_raises", "visible_raises"} :
       cv' = [Called(cv, "CreateObject", -1, out # "create_raises")
                EXCEPT !.app = (out # "create_raises"),
                       !.pc = IF out = "ok" THEN "open" ELSE "except"]
  /\ UNCHANGED <<prog, fs, ncalls, reqs, uuids, gui>>

\* lines 86, 90, 105: Documents.Open / Workbooks.Open / Presentations.Open
ConvOpen ==
  /\ cv.pc = "open"
  /\ \E ok \in BOOLEAN :
       cv' = [Called(cv, "Open", -1, ok)
                EXCEPT !.doc = ok, !.pc = IF ok THEN "export" ELSE "except"]
  /\ UNCHANGED <<prog, fs, ncalls, reqs, uuids, gui>>

\* line 109, reached when the export or save call did not raise
Exported(c) == [c EXCEPT !.pc = "close", !.ret = Ret(TRUE, "pdf", c.pdf_output_path)]

\* lines 93-103: only Excel's export has a second attempt
HasFallbackNever(app_name) == FALSE
HasFallback(app_name) == app_name = "Excel.Application"

ExportMethod(app_name) ==
  IF app_name = "Excel.Application" THEN "ExportAsFixedFormat" ELSE "SaveAs"

\* lines 87, 94, 106: the application writes the PDF, or raises (always where
\* the file cannot be written)
ConvExport ==
  /\ cv.pc = "export"
  /\ \E ok \in BOOLEAN :
       IF ok /\ CanWrite(fs, cv.pdf_output_path)
       THEN /\ fs' = WriteFile(fs, cv.pdf_output_path, cv.caller)
            /\ cv' = Exported(Called(cv, ExportMethod(cv.app_name), cv.pdf_format, TRUE))
       ELSE /\ fs' = fs
            /\ cv' = [Called(cv, ExportMethod(cv.app_name), cv.pdf_format, FALSE)
                        EXCEPT !.pc = IF HasFallback(cv.app_name)
                                      THEN "fallback" ELSE "except"]
  /\ UNCHANGED <<prog, ncalls, reqs, uuids, gui>>

\* lines 98-103: SaveAs with FileFormat=57 on the same workbook
ConvFallbackSaveAs ==
  /\ cv.pc = "fallback"
  /\ \E ok \in BOOLEAN :
       IF ok /\ CanWrite(fs, cv.pdf_output_path)
       THEN /\ fs' = WriteFile(fs, cv.pdf_output_path, cv.caller)
            /\ cv' = Exported(Called(cv, "SaveAs", 57, TRUE))
       ELSE /\ fs' = fs
            /\ cv' = [Called(cv, "SaveAs", 57, FALSE) EXCEPT !.pc = "except"]
  /\ UNCHANGED <<prog, ncalls, reqs, uuids, gui>>

\* line 119, with the finally block still to run
HandledNoFinally(c) ==
  [c EXCEPT !.pc = "returned", !.ret = Ret(FALSE, "convert_failed", c.input_path)]
Handled(c) == [c EXCEPT !.pc = "close", !.ret = Ret(FALSE, "convert_failed", c.input_path)]

\* lines 111-119: every exception of the try block becomes a failure result
ConvExcept ==
  /\ cv.pc = "except"
  /\ cv' = Handled(cv)
  /\ UNCHANGED <<prog, fs, ncalls, reqs, uuids, gui>>

\* lines 133-134: an exception of Close is logged and the finally block goes on
CloseRaisedPropagates(c) == [c EXCEPT !.pc = "raised", !.ret = NoRet]
CloseRaised(c) == [c EXCEPT !.pc = "quit"]

\* lines 124-134: the finally block closes an opened document
ConvClose ==
  /\ cv.pc = "close"
  /\ IF cv.doc
     THEN \E ok \in BOOLEAN :
            cv' = IF ok THEN [Called(cv, "Close", -1, TRUE) EXCEPT !.pc = "quit"]
                  ELSE CloseRaised(Called(cv, "Close", -1, FALSE))
     ELSE cv' = [cv EXCEPT !.pc = "quit"]
  /\ UNCHANGED <<prog, fs, ncalls, reqs, uuids, gui>>

\* lines 145-146 and the pending return of the try or except block
Released(c) == [c EXCEPT !.pc = "returned", !.app = FALSE, !.doc = FALSE]

\* lines 135-146: the finally block quits the application, then the call returns
ConvQuit ==
  /\ cv.pc = "quit"
  /\ IF cv.app
     THEN \E ok \in BOOLEAN : cv' = Released(Called(cv, "Quit", -1, ok))
     ELSE cv' = Released(cv)
  /\ UNCHANGED <<prog, fs, ncalls, reqs, uuids, gui>>

ConvStep ==
  \/ ConvCheckInput
  \/ ConvEnsureOutputDir
  \/ ConvCreateObject
  \/ ConvOpen
  \/ ConvExport
  \/ ConvFallbackSaveAs
  \/ ConvExcept
  \/ ConvClose
  \/ ConvQuit

---------------------------------------------------------------------------
(* converter.py run as a program: calls of convert_to_pdf one after another *)

MaxCalls == 2

DirD == <<"d">>
DirO == <<"o">>
DirN == <<"n">>
DocxPath == <<"d", "\\", "a", ".", "d", "o", "c", "x">>
XlsUpperPath == <<"d", "\\", "a", ".", "X", "L", "S">>
PptPath == <<"d", "\\", "b", ".", "p", "p", "t">>
TxtPath == <<"d", "\\", "a", ".", "t", "x", "t">>
MissingPath == <<"d", "\\", "m", ".", "d", "o", "c">>
DotfilePath == <<"d", "\\", ".", "d", "o", "c", "x">>
BarePath == <<"c", ".", "x", "l", "s", "x">>

InputPaths == {DocxPath, XlsUpperPath, PptPath, TxtPath, MissingPath, DotfilePath, BarePath}

\* "" (the input's directory), a directory, an absent directory, a regular file
OutputPaths == {<<>>, DirO, DirN, TxtPath}

MainCall ==
  /\ prog = "converter.py"
  /\ cv.pc = "idle"
  /\ ncalls < MaxCalls
  /\ ncalls' = ncalls + 1
  /\ \E i \in InputPaths, o \in OutputPaths : cv' = Enter("main", i, o)
  /\ UNCHANGED <<prog, fs, reqs, uuids, gui>>

MainReturn ==
  /\ cv.pc = "returned"
  /\ cv.caller = "main"
  /\ cv' = IdleFrame
  /\ UNCHANGED <<prog, fs, ncalls, reqs, uuids, gui>>

---------------------------------------------------------------------------
(* main.py: POST /convert/.  The handler is a coroutine of one event loop: *)
(* between two awaits it runs without any other handler running.  The only *)
(* await of the handler is the one of file.close() (line 112).             *)

NumRequests == 2
MaxFiles == 2

TEMP_UPLOAD_DIR == <<"temp_uploads">>
DEFAULT_OUTPUT_DIR == <<"converted_pdfs">>

ReqTags == <<"req1", "req2", "req3", "req4">>
Tag(r) == ReqTags[r]

\* str(uuid.uuid4()): a value no earlier call returned
JobIds == <<<<"u1">>, <<"u2">>, <<"u3">>, <<"u4">>>>
Uuid4(used) == JobIds[Cardinality(used) + 1]

DocUpperName == <<"a", ".", "D", "O", "C">>
TxtName == <<"a", ".", "t", "x", "t">>
UploadNames == {DocUpperName, TxtName}

UploadLists == UNION {[1..n -> UploadNames] : n \in 1..MaxFiles}

\* None, a plain name, "..", "s/t", "s\t", a drive prefix, a name Windows refuses
Subdirs ==
  {<<>>, <<"s">>, <<".", ".">>, <<"s", "/", "t">>, <<"s", "\\", "t">>,
   <<"C", ":">>, <<"*">>}

IdleReq ==
  [pc |-> "idle", files |-> <<>>, output_subdir |-> <<>>, job_id |-> <<>>,
   temp_job_dir |-> <<>>, final_output_dir |-> <<>>, i |-> 1, results |-> <<>>,
   saved |-> FALSE, tasks |-> <<>>, status |-> 0, wrote |-> {}]

\* the handler of some other request is between two awaits, or its response
\* is being sent
LoopBusy(r) ==
  \E q \in 1..NumRequests :
    q # r /\ reqs[q].pc \in {"validate", "loop", "converting", "responded"}

\* lines 58-63: the request arrives and its job directory is made
ReqBegin(r) ==
  /\ prog = "main.py"
  /\ reqs[r].pc = "idle"
  /\ \A q \in 1..(r - 1) : reqs[q].pc # "idle"
  /\ ~LoopBusy(r)
  /\ \E files \in UploadLists, sub \in Subdirs :
       LET id == Uuid4(uuids)
           dir == Join(TEMP_UPLOAD_DIR, id)
       IN  /\ uuids' = uuids \cup {id}
           /\ fs' = Makedirs(fs, dir)
           /\ reqs' = [reqs EXCEPT ![r] =
                 [IdleReq EXCEPT !.pc = "validate", !.files = files,
                                 !.output_subdir = sub, !.job_id = id,
                                 !.temp_job_dir = dir]]
  /\ UNCHANGED <<prog, cv, ncalls, gui>>

\* line 69: any(c in output_subdir for c in ['/', '\\', '..'])
ContainsDotDot(s) == \E k \in 1..(Len(s) - 1) : s[k] = "." /\ s[k + 1] = "."
HasTraversal(s) == (\E k \in 1..Len(s) : s[k] \in {"/", "\\"}) \/ ContainsDotDot(s)

\* lines 66-75
FinalOutputDir(sub) ==
  IF sub # <<>> THEN Join(DEFAULT_OUTPUT_DIR, sub) ELSE DEFAULT_OUTPUT_DIR

\* an exception leaves the handler: FastAPI answers from its exception
\* handler, with a response of its own that carries no background task, so
\* the tasks added to the injected BackgroundTasks are never run
Failed(q, code) ==
  [IdleReq EXCEPT !.pc = "done", !.status = code, !.tasks = q.tasks,
                  !.output_subdir = q.output_subdir, !.job_id = q.job_id,
                  !.temp_job_dir = q.temp_job_dir,
                  !.final_output_dir = q.final_output_dir]

\* lines 65-79: the subdirectory name is checked, the output directory made
ReqValidate(r) ==
  /\ reqs[r].pc = "validate"
  /\ LET q == reqs[r]
         final == FinalOutputDir(q.output_subdir)
     IN  IF q.output_subdir # <<>> /\ HasTraversal(q.output_subdir)
         THEN /\ reqs' = [reqs EXCEPT ![r] =
                    Failed([q EXCEPT !.tasks = Append(@, q.temp_job_dir)], 400)]
              /\ fs' = fs
         ELSE IF CanMakedirs(fs, final)
         THEN /\ fs' = Makedirs(fs, final)
              /\ reqs' = [reqs EXCEPT ![r] =
                    [q EXCEPT !.pc = "loop", !.final_output_dir = final]]
         ELSE /\ fs' = fs
              /\ reqs' = [reqs EXCEPT ![r] =
                    Failed([q EXCEPT !.final_output_dir = final], 500)]
  /\ UNCHANGED <<prog, cv, ncalls, uuids>>
  /\ UNCHANGED gui

Rec(name, ok, kind, text) ==
  [filename |-> name, success |-> ok, kind |-> kind, text |-> text]

\* lines 88-94: the record of an unsupported file, then the next file
RejectedNoRecord(q) == [q EXCEPT !.i = @ + 1]
Rejected(q) ==
  [q EXCEPT !.results = Append(@, Rec(q.files[q.i], FALSE, "unsupported",
                                      FileExt(q.files[q.i]))),
            !.i = @ + 1]

\* lines 125-129: the clean-up is scheduled and the response returned; FastAPI
\* attaches the injected BackgroundTasks to the returned response
Responded(q) ==
  [q EXCEPT !.pc = "responded", !.status = 200, !.tasks = Append(@, q.temp_job_dir)]

\* line 97
TempFilePath(q) == Join(q.temp_job_dir, q.files[q.i])

\* lines 82-112: the next uploaded file is checked and saved, up to the await
\* of file.close(); after the last file the response is returned
ReqNextFile(r) ==
  /\ reqs[r].pc = "loop"
  /\ LET q == reqs[r]
     IN  IF q.i > Len(q.files)
         THEN /\ reqs' = [reqs EXCEPT ![r] = Responded(q)]
              /\ fs' = fs
         ELSE IF ~Supported(FileExt(q.files[q.i]))
         THEN /\ reqs' = [reqs EXCEPT ![r] = Rejected(q)]
              /\ fs' = fs
         ELSE \E ok \in BOOLEAN :
                IF ok /\ CanWrite(fs, TempFilePath(q))
                THEN /\ fs' = WriteFile(fs, TempFilePath(q), Tag(r))
                     /\ reqs' = [reqs EXCEPT ![r] =
                           [q EXCEPT !.pc = "closing", !.saved = TRUE,
                                     !.wrote = @ \cup {Key(TempFilePath(q))}]]
                ELSE /\ fs' = fs
                     /\ reqs' = [reqs EXCEPT ![r] =
                           [q EXCEPT !.pc = "closing", !.saved = FALSE,
                                     !.results = Append(@, Rec(q.files[q.i], FALSE,
                                                   "save_failed", <<>>))]]
  /\ UNCHANGED <<prog, cv, ncalls, uuids, gui>>

\* lines 109-116: file.close() is done; a file that was not saved is skipped,
\* a saved one is handed to convert_to_pdf
ReqAfterClose(r) ==
  /\ reqs[r].pc = "closing"
  /\ ~LoopBusy(r)
  /\ LET q == reqs[r]
     IN  IF q.saved
         THEN /\ cv.pc = "idle"
              /\ cv' = Enter(Tag(r), TempFilePath(q), q.final_output_dir)
              /\ reqs' = [reqs EXCEPT ![r] = [q EXCEPT !.pc = "converting"]]
         ELSE /\ cv' = cv
              /\ reqs' = [reqs EXCEPT ![r] = [q EXCEPT !.pc = "loop", !.i = @ + 1]]
  /\ UNCHANGED <<prog, fs, ncalls, uuids, gui>>

\* lines 116-123: the result of convert_to_pdf is recorded
ReqRecord(r) ==
  /\ reqs[r].pc = "converting"
  /\ cv.pc = "returned"
  /\ cv.caller = Tag(r)
  /\ LET q == reqs[r]
     IN  reqs' = [reqs EXCEPT ![r] =
           [q EXCEPT !.pc = "loop", !.i = @ + 1,
                     !.results = Append(@, Rec(q.files[q.i], cv.ret.success,
                                               cv.ret.kind, cv.ret.text)),
                     !.wrote = IF cv.ret.success
                               THEN @ \cup {Key(cv.pdf_output_path)} ELSE @]]
  /\ cv' = IdleFrame
  /\ UNCHANGED <<prog, fs, ncalls, uuids, gui>>

\* the response is sent and the handler's locals are gone; the background
\* tasks of the response are still to run
Sent(q) == [IdleReq EXCEPT !.pc = "cleanup", !.status = q.status, !.tasks = q.tasks,
                           !.job_id = q.job_id, !.temp_job_dir = q.temp_job_dir]

ReqSend(r) ==
  /\ reqs[r].pc = "responded"
  /\ reqs' = [reqs EXCEPT ![r] = Sent(reqs[r])]
  /\ UNCHANGED <<prog, fs, cv, ncalls, uuids, gui>>

\* lines 35-41, run in a worker thread after the response was sent:
\* shutil.rmtree removes the job directory, or raises OSError, which is logged
BgCleanup(r) ==
  /\ reqs[r].pc = "cleanup"
  /\ \E ok \in BOOLEAN :
       fs' = IF ok THEN Rmtree(fs, reqs[r].tasks[1]) ELSE fs
  /\ reqs' = [reqs EXCEPT ![r].pc = "done"]
  /\ UNCHANGED <<prog, cv, ncalls, uuids, gui>>

ApiStep ==
  \E r \in 1..NumRequests :
    \/ ReqBegin(r)
    \/ ReqValidate(r)
    \/ ReqNextFile(r)
    \/ ReqAfterClose(r)
    \/ ReqRecord(r)
    \/ ReqSend(r)
    \/ BgCleanup(r)

---------------------------------------------------------------------------
(* gui.py: the Tk main loop runs the handlers of the main thread one at a  *)
(* time; every batch is converted by a thread of its own.                  *)

MaxBatches == 2

\* the rows of the list box are removed at most this many times
MaxRemovals == 1

\* a file named like DocxPath in another folder
OtherDocxPath == <<"o", "\\", "a", ".", "d", "o", "c", "x">>

\* line 101: what askopenfilenames returns, () when the dialog is cancelled
GuiSelections == {<<>>, <<DocxPath, XlsUpperPath, OtherDocxPath>>}

\* line 27: the default output folder, absent at first
DefaultGuiOutputDir == DirN

NoThread ==
  [pc |-> "finished", files |-> <<>>, out |-> <<>>, i |-> 1,
   success_count |-> 0, fail_count |-> 0]

InitGui ==
  [input_files |-> <<>>, listbox |-> <<>>, removals |-> 0, output_dir |-> DefaultGuiOutputDir,
   button |-> "normal", result_text |-> <<>>, progress |-> <<0, 1>>,
   threads |-> <<>>, after |-> <<>>]

RECURSIVE AddFiles(_, _, _)
\* lines 106-109: each selected path not yet in the list is appended, with its
\* basename shown in the listbox
AddFiles(g, sel, k) ==
  IF k > Len(sel) THEN g
  ELSE IF \E j \in 1..Len(g.input_files) : g.input_files[j] = sel[k]
  THEN AddFiles(g, sel, k + 1)
  ELSE AddFiles([g EXCEPT !.input_files = Append(@, sel[k]),
                          !.listbox = Append(@, Basename(sel[k]))], sel, k + 1)

\* lines 89-110
select_files ==
  /\ prog = "gui.py"
  /\ \E sel \in GuiSelections : gui' = AddFiles(gui, sel, 1)
  /\ UNCHANGED <<prog, fs, cv, ncalls, reqs, uuids>>

\* line 130: the first path of the list whose basename is the name, 0 when
\* there is none
FirstMatch(files, name) ==
  LET hits == {j \in 1..Len(files) : Basename(files[j]) = name}
  IN  IF hits = {} THEN 0 ELSE CHOOSE j \in hits : \A h \in hits : j <= h

DeleteAt(seq, i) == SubSeq(seq, 1, i - 1) \o SubSeq(seq, i + 1, Len(seq))

RECURSIVE RemoveRows(_, _)
\* lines 120-134: the selected rows from the last to the first; the row's
\* text is looked up in input_files by basename, the first match is removed
\* from the list, and the row is deleted from the listbox
RemoveRows(g, selected_indices) ==
  IF selected_indices = {} THEN g
  ELSE LET i == CHOOSE x \in selected_indices : \A y \in selected_indices : y <= x
           file_name_to_remove == g.listbox[i]
           m == FirstMatch(g.input_files, file_name_to_remove)
       IN  RemoveRows([g EXCEPT
                         !.input_files = IF m = 0 THEN @ ELSE DeleteAt(@, m),
                         !.listbox = DeleteAt(@, i)],
                      selected_indices \ {i})

\* lines 112-135: curselection() is any set of rows of the EXTENDED-mode
\* listbox (line 49); with no row selected a warning is shown and nothing
\* changes
remove_selected_files ==
  /\ prog = "gui.py"
  /\ gui.removals < MaxRemovals
  /\ \E selected_indices \in SUBSET (1..Len(gui.listbox)) :
       gui' = IF selected_indices = {} THEN gui
              ELSE [RemoveRows(gui, selected_indices) EXCEPT !.removals = @ + 1]
  /\ UNCHANGED <<prog, fs, cv, ncalls, reqs, uuids>>

\* lines 138-142
clear_file_list ==
  /\ prog = "gui.py"
  /\ gui' = [gui EXCEPT !.input_files = <<>>, !.listbox = <<>>]
  /\ UNCHANGED <<prog, fs, cv, ncalls, reqs, uuids>>

\* lines 145-151: askdirectory returns "" when cancelled; and the entry of
\* line 70 takes any text typed into it
select_output_dir ==
  /\ prog = "gui.py"
  /\ \E directory \in {<<>>, DirO, DirN} :
       gui' = IF directory # <<>> THEN [gui EXCEPT !.output_dir = directory] ELSE gui
  /\ UNCHANGED <<prog, fs, cv, ncalls, reqs, uuids>>

output_entry_typed ==
  /\ prog = "gui.py"
  /\ \E text \in {<<>>, TxtPath} : gui' = [gui EXCEPT !.output_dir = text]
  /\ UNCHANGED <<prog, fs, cv, ncalls, reqs, uuids>>

\* lines 186-197: the button is disabled, the result text restarted and the
\* worker thread started on a copy of the list
StartedButtonLeftEnabled(g, dir) ==
  [g EXCEPT !.result_text = <<"start">>,
            !.threads = Append(@, [NoThread EXCEPT !.pc = "begin",
                                                   !.files = g.input_files,
                                                   !.out = dir])]
Started(g, dir) ==
  [g EXCEPT !.button = "disabled", !.result_text = <<"start">>,
            !.threads = Append(@, [NoThread EXCEPT !.pc = "begin",
                                                   !.files = g.input_files,
                                                   !.out = dir])]

\* lines 165-197; a disabled ttk.Button does not run its command
start_conversion_thread ==
  /\ prog = "gui.py"
  /\ gui.button = "normal"
  /\ Len(gui.threads) < MaxBatches
  /\ gui.input_files # <<>>
  /\ gui.output_dir # <<>>
  /\ IF Exists(fs, gui.output_dir)
     THEN /\ fs' = fs
          /\ gui' = Started(gui, gui.output_dir)
     ELSE \E ok \in BOOLEAN :
            IF ok /\ CanMakedirs(fs, gui.output_dir)
            THEN /\ fs' = Makedirs(fs, gui.output_dir)
                 /\ gui' = Started(gui, gui.output_dir)
            ELSE /\ fs' = fs
                 /\ gui' = gui
  /\ UNCHANGED <<prog, cv, ncalls, reqs, uuids>>

Alive(g) == {t \in 1..Len(g.threads) : g.threads[t].pc # "finished"}

\* lines 202-205
WorkerBegin(t) ==
  /\ gui.threads[t].pc = "begin"
  /\ gui' = [gui EXCEPT !.threads[t].pc = "loop", !.progress = <<0, 1>>]
  /\ UNCHANGED <<prog, fs, cv, ncalls, reqs, uuids>>

\* lines 207-213 and 229-232: the next file of the batch is handed to
\* convert_to_pdf; after the last one the completion dialog is shown
WorkerNext(t) ==
  /\ gui.threads[t].pc = "loop"
  /\ LET w == gui.threads[t]
     IN  IF w.i > Len(w.files)
         THEN /\ gui' = [gui EXCEPT !.threads[t].pc = "dialog",
                                    !.result_text = Append(@, "done")]
              /\ cv' = cv
         ELSE /\ cv.pc = "idle"
              /\ cv' = Enter("gui", w.files[w.i], w.out)
              /\ gui' = [gui EXCEPT !.threads[t].pc = "converting",
                                    !.result_text = Append(@, "converting")]
  /\ UNCHANGED <<prog, fs, ncalls, reqs, uuids>>

\* lines 215-226
WorkerRecord(t) ==
  /\ gui.threads[t].pc = "converting"
  /\ cv.pc = "returned"
  /\ cv.caller = "gui"
  /\ LET w == gui.threads[t]
     IN  gui' = [gui EXCEPT
           !.threads[t] =
              [w EXCEPT !.pc = "loop", !.i = @ + 1,
                        !.success_count = IF cv.ret.success THEN @ + 1 ELSE @,
                        !.fail_count = IF cv.ret.success THEN @ ELSE @ + 1],
           !.result_text = Append(@, IF cv.ret.success THEN "success" ELSE "failure"),
           !.progress = <<w.i, Len(w.files)>>]
  /\ cv' = IdleFrame
  /\ UNCHANGED <<prog, fs, ncalls, reqs, uuids>>

\* lines 232-237: showinfo returns when the user closes the dialog; the
\* thread then queues _enable_convert_button for the main loop and ends
WorkerDismissed(t) ==
  /\ gui.threads[t].pc = "dialog"
  /\ gui' = [gui EXCEPT !.threads[t] = NoThread, !.after = Append(@, "enable")]
  /\ UNCHANGED <<prog, fs, cv, ncalls, reqs, uuids>>

\* lines 239-241, run by the main loop
enable_convert_button ==
  /\ prog = "gui.py"
  /\ gui.after # <<>>
  /\ gui' = [gui EXCEPT !.after = Tail(@), !.button = "normal"]
  /\ UNCHANGED <<prog, fs, cv, ncalls, reqs, uuids>>

Threads == {t \in 1..MaxBatches : prog = "gui.py" /\ t <= Len(gui.threads)}

WorkerStep ==
  \E t \in Threads :
    \/ WorkerBegin(t)
    \/ WorkerNext(t)
    \/ WorkerRecord(t)
    \/ WorkerDismissed(t)

\* the handlers of a conversion run: the list is filled or emptied, the
\* output folder chosen and the batch converted
GuiRunStep ==
  \/ select_files
  \/ clear_file_list
  \/ select_output_dir
  \/ output_entry_typed
  \/ start_conversion_thread
  \/ WorkerStep
  \/ enable_convert_button

GuiStep == GuiRunStep \/ remove_selected_files

---------------------------------------------------------------------------

OldDir == [kind |-> "dir", by |-> ""]
OldFile == [kind |-> "file", by |-> ""]

\* lines 30-31 of main.py make the two directories when the server starts
InitFs(p) ==
  IF p = "main.py"
  THEN (Key(TEMP_UPLOAD_DIR) :> OldDir) @@ (Key(DEFAULT_OUTPUT_DIR) :> OldDir)
  ELSE (Key(DirD) :> OldDir) @@ (Key(DirO) :> OldDir)
       @@ [k \in {Key(p2) : p2 \in (InputPaths \ {MissingPath}) \cup {OtherDocxPath}}
             |-> OldFile]

Programs == {"converter.py", "main.py", "gui.py"}

Init ==
  /\ prog \in Programs
  /\ fs = InitFs(prog)
  /\ cv = IdleFrame
  /\ ncalls = 0
  /\ reqs = [r \in 1..NumRequests |-> IdleReq]
  /\ uuids = {}
  /\ gui = InitGui

Next == MainCall \/ MainReturn \/ ConvStep \/ ApiStep \/ GuiStep

Spec == Init /\ [][Next]_vars

\* the GUI alone during conversion runs; threads that can run do run, the
\* calls into the office application return, and the user closes the
\* completion dialog.  remove_selected_files writes input_files and the
\* listbox only, and a worker reads the copy of the list made at line 196.
GuiInit == Init /\ prog = "gui.py"

GuiNext == ConvStep \/ GuiRunStep

GuiFairSpec ==
  /\ GuiInit
  /\ [][GuiNext]_vars
  /\ WF_vars(ConvStep)
  /\ WF_vars(WorkerStep)
  /\ WF_vars(enable_convert_button)

---------------------------------------------------------------------------
(* Properties of convert_to_pdf                                            *)

CallsOf(m) == {k \in 1..Len(cv.calls) : cv.calls[k].m = m}
AppCreated == \E k \in CallsOf("CreateObject") : cv.calls[k].ok
DocOpened == \E k \in CallsOf("Open") : cv.calls[k].ok
SaveCalls == CallsOf("SaveAs") \cup CallsOf("ExportAsFixedFormat")
Left == cv.pc \in {"returned", "raised"}

\* C1: once the application handle exists, no path leaves convert_to_pdf
\* without an attempt of app.Quit(); when a document was opened its Close is
\* attempted before that Quit, and a Close that raises does not stop the Quit.
C1_ReleasedOnEveryPath ==
  /\ (Left /\ AppCreated) => CallsOf("Quit") # {}
  /\ (Left /\ DocOpened) =>
        \E c \in CallsOf("Close") : \E q \in CallsOf("Quit") : c < q
  /\ \A c \in CallsOf("Close") : \A q \in CallsOf("Quit") : c < q
  /\ (Left /\ \E c \in CallsOf("Close") : ~cv.calls[c].ok) => CallsOf("Quit") # {}

\* a call that failed to export, whose Close raised, and that still quit
C1_Witness ==
  /\ cv.pc = "returned"
  /\ \E k \in SaveCalls : ~cv.calls[k].ok
  /\ \E c \in CallsOf("Close") : ~cv.calls[c].ok
  /\ \E q \in CallsOf("Quit") : q = Len(cv.calls)

\* C5 as stated: the call always returns a pair, never raises, any exception
\* of the automation surface (create, open, export, close, quit) gives
\* (False, message), and (True, path) needs an export call that did not raise.
C5_AnyExceptionIsFailure ==
  /\ cv.pc # "raised"
  /\ cv.pc = "returned" =>
       /\ cv.ret.set
       /\ (\E k \in 1..Len(cv.calls) : ~cv.calls[k].ok) => ~cv.ret.success
       /\ cv.ret.success => \E k \in SaveCalls : cv.calls[k].ok

\* C5 amended: the call always returns a pair and never raises; it returns
\* (True, pdf path) exactly when an export or save call completed without
\* raising, so a failure before the try block or an exception of create, open
\* or of every export attempt gives (False, message); an exception of Close or
\* of Quit is caught and leaves the result as it was.
C5_ResultFollowsExport ==
  /\ cv.pc # "raised"
  /\ cv.pc = "returned" =>
       /\ cv.ret.set
       /\ cv.ret.success <=> \E k \in SaveCalls : cv.calls[k].ok
       /\ cv.ret.success => cv.ret.kind = "pdf" /\ cv.ret.text = cv.pdf_output_path
       /\ ~cv.ret.success =>
            cv.ret.kind \in {"no_input", "unsupported", "mkdir_failed", "convert_failed"}
       /\ ~Exists(fs, cv.input_path) => cv.ret.kind = "no_input"
       /\ cv.calls = <<>> => cv.ret.kind # "convert_failed"

\* a successful conversion whose Close and Quit both raised
C5_Witness ==
  /\ cv.pc = "returned"
  /\ cv.ret.success
  /\ \E c \in CallsOf("Close") : ~cv.calls[c].ok
  /\ \E q \in CallsOf("Quit") : ~cv.calls[q].ok

\* C7: when convert_to_pdf is about to create the application, its output
\* directory exists; a directory that could not be created ends the call with
\* a failure and no call on the automation surface.
C7_OutputDirExists ==
  /\ cv.pc = "create" => IsDir(fs, cv.output_dir)
  /\ (cv.pc = "returned" /\ cv.ret.kind = "mkdir_failed") =>
        ~cv.ret.success /\ cv.calls = <<>>

\* C8: with a workbook opened, ExportAsFixedFormat is called once; if it raises,
\* SaveAs with format 57 is called once after it, else not at all; the call
\* succeeds iff one of the two did not raise.  With a Word document or a
\* presentation opened, the one SaveAs (format 17 or 32) decides the result.
C8_ExcelFallbackOnly ==
  (cv.pc = "returned" /\ DocOpened) =>
    LET E == CallsOf("ExportAsFixedFormat")
        S == CallsOf("SaveAs")
    IN  IF cv.app_name = "Excel.Application"
        THEN /\ Cardinality(E) = 1
             /\ \A e \in E :
                  IF cv.calls[e].ok THEN S = {}
                  ELSE /\ Cardinality(S) = 1
                       /\ \A x \in S : x = e + 1 /\ cv.calls[x].fmt = 57
             /\ cv.ret.success <=> \E k \in E \cup S : cv.calls[k].ok
        ELSE /\ E = {}
             /\ Cardinality(S) = 1
             /\ \A x \in S :
                  /\ cv.calls[x].fmt = (IF cv.app_name = "Word.Application" THEN 17 ELSE 32)
                  /\ cv.ret.success <=> cv.calls[x].ok

\* a workbook whose export raised and whose SaveAs then succeeded
C8_Witness ==
  /\ cv.pc = "returned"
  /\ cv.app_name = "Excel.Application"
  /\ \E e \in CallsOf("ExportAsFixedFormat") : ~cv.calls[e].ok
  /\ \E x \in CallsOf("SaveAs") : cv.calls[x].ok
  /\ cv.ret.success

---------------------------------------------------------------------------
(* Properties of POST /convert/                                            *)

Requests == 1..NumRequests
InHandler(q) == q.pc \in {"validate", "loop", "closing", "converting", "responded"}
Accepted(q) == q.pc \in {"loop", "closing", "converting", "responded"}
Unsupported(name) == FileExt(name) \notin DOMAIN SUPPORTED_EXTENSIONS

\* C2: once a request is over (its response sent and the background tasks of
\* that response run), its temporary job directory is gone, whatever the
\* status of the response and the fate of its files.
C2_TempDirRemoved ==
  \A r \in Requests :
    reqs[r].pc = "done" => ~Exists(fs, reqs[r].temp_job_dir)

\* C3: a path whose lower-cased extension is not supported makes
\* convert_to_pdf return a failure with no call on the automation surface;
\* the endpoint records such an upload as failed, never saves it and never
\* hands it to convert_to_pdf.
C3_UnsupportedRejected ==
  /\ (cv.pc \notin {"idle", "check_input"} /\ Unsupported(cv.input_path)) =>
        cv.pc = "returned" /\ ~cv.ret.success /\ cv.calls = <<>>
  /\ \A r \in Requests :
       LET q == reqs[r]
       IN  /\ \A k \in 1..Len(q.results) :
                Unsupported(q.results[k].filename) =>
                  ~q.results[k].success /\ q.results[k].kind = "unsupported"
           /\ \A k \in 1..Len(q.files) :
                (InHandler(q) /\ Unsupported(q.files[k])) =>
                  /\ Key(Join(q.temp_job_dir, q.files[k])) \notin DOMAIN fs
                  /\ k < q.i => Len(q.results) >= k /\ ~q.results[k].success
           /\ (cv.pc # "idle" /\ cv.caller = Tag(r)) => ~Unsupported(cv.input_path)

\* a response whose first file was unsupported and whose second was converted
C3_Witness ==
  \E r \in Requests :
    /\ reqs[r].pc = "responded"
    /\ Len(reqs[r].results) = 2
    /\ reqs[r].results[1].kind = "unsupported"
    /\ reqs[r].results[2].success

DefaultOrChild(p) ==
  LET k == Key(p)
      d == Key(DEFAULT_OUTPUT_DIR)
  IN  k = d \/ (k.comps # <<>> /\ ParentKey(k) = d)

\* C4: a subdirectory name holding "/", "\" or ".." ends the request with
\* status 400, with no upload saved and no output directory made; the output
\* directory of every other request is DEFAULT_OUTPUT_DIR or a direct child.
C4_TraversalRejected ==
  \A r \in Requests :
    LET q == reqs[r]
        bad == (\E k \in 1..Len(q.output_subdir) : q.output_subdir[k] \in {"/", "\\"})
               \/ (\E k \in 1..(Len(q.output_subdir) - 1) :
                     q.output_subdir[k] = "." /\ q.output_subdir[k + 1] = ".")
    IN  /\ (bad /\ q.pc \notin {"idle", "validate"}) =>
             /\ q.pc = "done" /\ q.status = 400
             /\ q.wrote = {} /\ q.results = <<>>
             /\ \A k \in DOMAIN fs : ~IsUnder(k, Key(q.temp_job_dir)) \/ fs[k].kind = "dir"
       /\ Accepted(q) => DefaultOrChild(q.final_output_dir)

\* C6: a 200 response carries one record per uploaded file, in upload order
\* and under the uploaded name; while the files are processed every file
\* already passed has its record.
C6_OneRecordPerFile ==
  \A r \in Requests :
    LET q == reqs[r]
    IN  /\ (q.pc = "responded" /\ q.status = 200) =>
             /\ Len(q.results) = Len(q.files)
             /\ \A k \in 1..Len(q.files) : q.results[k].filename = q.files[k]
        /\ q.pc = "loop" => Len(q.results) = q.i - 1

\* a 200 response for two files: the first failed, the second was converted
C6_Witness ==
  \E r \in Requests :
    /\ reqs[r].pc = "responded"
    /\ reqs[r].status = 200
    /\ Len(reqs[r].files) = 2
    /\ reqs[r].results[1].kind \in {"save_failed", "convert_failed"}
    /\ reqs[r].results[2].success

\* C10: two requests in their handlers have different job directories, and
\* every file a request in its handler wrote (a saved upload, a PDF) is still
\* there as that request wrote it.
C10_NoCollision ==
  /\ \A r \in Requests : \A r2 \in Requests :
       (r # r2 /\ InHandler(reqs[r]) /\ InHandler(reqs[r2])) =>
          Key(reqs[r].temp_job_dir) # Key(reqs[r2].temp_job_dir)
  /\ \A r \in Requests :
       InHandler(reqs[r]) =>
         \A k \in reqs[r].wrote : k \in DOMAIN fs /\ fs[k].by = Tag(r)

---------------------------------------------------------------------------
(* Properties of the GUI                                                   *)

C9_OneWorker ==
  /\ Cardinality(Alive(gui)) <= 1
  /\ Alive(gui) # {} => gui.button = "disabled"
  /\ \A t \in Alive(gui) :
       LET w == gui.threads[t]
       IN  /\ w.success_count + w.fail_count = w.i - 1
           /\ w.pc = "converting" <=> (cv.pc # "idle" /\ cv.caller = "gui")
           /\ w.pc = "converting" => cv.input_path = w.files[w.i]
  /\ (prog = "gui.py" /\ cv.pc # "idle") => Alive(gui) # {}

---------------------------------------------------------------------------
(* Properties of the file list of the GUI                                  *)

NoDuplicatePath(files) ==
  \A i, j \in 1..Len(files) : files[i] = files[j] => i = j

SameLength(g) == Len(g.listbox) = Len(g.input_files)

Aligned(g) ==
  /\ SameLength(g)
  /\ \A i \in 1..Len(g.input_files) : g.listbox[i] = Basename(g.input_files[i])

\* C11: after any sequence of select_files, remove_selected_files and
\* clear_file_list, input_files holds no path twice and the listbox is
\* aligned with it: both have the same length and the row at each position
\* is the basename of the path at the same position, so that the rows
\* removed are the rows of the paths removed.
C11_ListboxAligned ==
  prog = "gui.py" => NoDuplicatePath(gui.input_files) /\ Aligned(gui)

\* the part of C11 the handlers keep: no path twice, and as many rows as
\* paths
C11_NoDuplicateSameLength ==
  prog = "gui.py" => NoDuplicatePath(gui.input_files) /\ SameLength(gui)

====
